---- MODULE Spec2Model ----
(***************************************************************************)
(* Model of list_partitions (src/src/main.rs:73-173): the walk over the    *)
(* current snapshot's manifest list that folds the partition tuples of     *)
(* live data files into partition_map (spec id -> one set of distinct      *)
(* values per partition field) and prints one block per spec id.           *)
(*                                                                         *)
(* The table (its partition-spec history, whether it has a current         *)
(* snapshot, and what the manifest list of that snapshot holds) is the     *)
(* input; object-store reads may fail at the moment they are made.         *)
(***************************************************************************)
EXTENDS Integers, Sequences, FiniteSets, TLC

\* ------------------------------------------------------------------ bounds
\* longest manifest list of a snapshot
MaxManifests == 2
\* data-file entries registered by all manifests of a snapshot together
MaxEntries == 2

\* ------------------------------------------------------- the table's data
\* ManifestStatus of the iceberg crate, as matched at main.rs:130
ManifestStatus == {"Added", "Existing", "Deleted"}

\* partition values (iceberg::spec::Literal) a data file may carry at each
\* position of its tuple; the fold uses their equality and hash only
FieldValues == << {"2024-01-01", "2024-01-02"}, {"eu"} >>

Literals == UNION {FieldValues[i] : i \in DOMAIN FieldValues}

\* table.metadata().partition_spec_by_id: the partition-spec history of the
\* table, spec id -> ordered fields.  Spec 1 has one field, spec 2 has two.
PartitionSpecs ==
    (1 :> << [field_id |-> 1000, name |-> "date", transform |-> "Day"] >>) @@
    (2 :> << [field_id |-> 1000, name |-> "date", transform |-> "Day"],
             [field_id |-> 1001, name |-> "region", transform |-> "Identity"] >>)

\* the id of a spec the metadata does not know
UnknownSpecId == 3

\* spec ids a manifest may declare (manifest_metadata.partition_spec().spec_id())
SpecIds == DOMAIN PartitionSpecs \cup {UnknownSpecId}

\* lengths of the partition tuples data files carry: a data file is written
\* under one of the table's specs, not necessarily the one its manifest claims
TupleLens == {Len(PartitionSpecs[s]) : s \in DOMAIN PartitionSpecs}

\* entry.data_file().partition().fields()
PartitionTuples ==
    UNION {{t \in [1..n -> Literals] : \A i \in 1..n : t[i] \in FieldValues[i]} :
              n \in TupleLens}

\* a manifest entry: entry.status() and the data file's partition tuple
ManifestEntries == [status : ManifestStatus, partition : PartitionTuples]

\* .take(1) at main.rs:106
TakeCount == 1

\* ---------------------------------------------------------------- helpers
Min(a, b) == IF a < b THEN a ELSE b

RECURSIVE SumTo(_, _)
SumTo(f, n) == IF n = 0 THEN 0 ELSE f[n] + SumTo(f, n - 1)

\* Iterator::take: the first n elements of a sequence
Take(s, n) == SubSeq(s, 1, Min(n, Len(s)))

\* the manifests the loop at main.rs:106 visits
LoopManifests(list) == Take(list, TakeCount)

\* a fold that skips nothing
IsDeletedNever(entry) == FALSE

\* main.rs:130: the entries the fold skips
IsDeleted(entry) == entry.status = "Deleted"

\* main.rs:118-126: vec![HashSet::default(); fields().len()]
NewBucket(spec_id) == [i \in 1..Len(PartitionSpecs[spec_id]) |-> {}]

\* a lookup that creates no bucket
EntryOrInsertNothing(map, spec_id) == map

\* main.rs:115-127: partition_map.entry(id).or_insert_with(..), for a spec id
\* the metadata knows
EntryOrInsert(map, spec_id) ==
    IF spec_id \in DOMAIN map THEN map ELSE map @@ (spec_id :> NewBucket(spec_id))

\* a fold that grows the bucket to the length of the tuple
InsertFieldsResizing(bucket, partition) ==
    [i \in 1..(IF Len(partition) > Len(bucket) THEN Len(partition) ELSE Len(bucket)) |->
        (IF i <= Len(bucket) THEN bucket[i] ELSE {}) \cup
        (IF i <= Len(partition) THEN {partition[i]} ELSE {})]

\* main.rs:136-143: the pairs (field_id, value) the inner loop inserts before
\* get_mut(field_id) returns None (or the tuple ends)
InsertFields(bucket, partition) ==
    [i \in 1..Len(bucket) |->
        IF i <= Len(partition) THEN bucket[i] \cup {partition[i]} ELSE bucket[i]]

\* main.rs:139-141: get_mut(field_id).unwrap() panics on an index past the bucket
InsertPanics(bucket, partition) == Len(partition) > Len(bucket)

\* main.rs:129-144 as a function: the bucket after the entries, and whether
\* get_mut(..).unwrap() panicked on the way
RECURSIVE FoldEntries(_, _)
FoldEntries(bucket, entries) ==
    IF entries = << >> THEN [bucket |-> bucket, outcome |-> "ok"]
    ELSE IF IsDeleted(Head(entries)) THEN FoldEntries(bucket, Tail(entries))
    ELSE IF InsertPanics(bucket, Head(entries).partition)
         THEN [bucket |-> InsertFields(bucket, Head(entries).partition),
               outcome |-> "panic"]
    ELSE FoldEntries(InsertFields(bucket, Head(entries).partition), Tail(entries))

\* main.rs:106-145 as a function, every load succeeding: partition_map after the
\* manifests, and whether the pass panicked
RECURSIVE FoldManifests(_, _)
FoldManifests(map, manifests) ==
    IF manifests = << >> THEN [map |-> map, outcome |-> "ok"]
    ELSE IF Head(manifests).spec_id \notin DOMAIN PartitionSpecs
         THEN [map |-> map, outcome |-> "panic"]
    ELSE LET s == Head(manifests).spec_id
             m == EntryOrInsert(map, s)
             r == FoldEntries(m[s], Head(manifests).entries)
         IN  IF r.outcome = "panic"
             THEN [map |-> [m EXCEPT ![s] = r.bucket], outcome |-> "panic"]
             ELSE FoldManifests([m EXCEPT ![s] = r.bucket], Tail(manifests))

\* main.rs:85-145: the aggregation pass over a manifest list
Aggregate(list) == FoldManifests([k \in {} |-> << >>], LoopManifests(list))

\* ------------------------------------------------------------------ state
VARIABLES
    has_snapshot,    \* table.metadata().current_snapshot() is Some
    storage,         \* the manifest list stored for the current snapshot, with each
                     \* manifest's content; empty when there is no current snapshot
    pc,              \* position in list_partitions
    manifest_list,   \* local: the loaded manifest list
    mi,              \* manifests the outer loop has taken from its iterator
    ei,              \* entries of the current manifest the inner loop has taken
    partition_map,   \* local: spec id -> sequence of sets
    printed,         \* keys of partition_map the report loop has visited
    stdout,          \* lines written by println!
    stderr,          \* messages written by eprint!
    fetches,         \* reads asked of the object store (table.file_io()), with their results
    outcome          \* "running", "ok" (returned), "error" (try_ok! returned), "panic"

vars == << has_snapshot, storage, pc, manifest_list, mi, ei, partition_map,
           printed, stdout, stderr, fetches, outcome >>

EmptyMap == [k \in {} |-> << >>]

\* the manifest the outer loop is working on
CurManifest == manifest_list[mi]

Init ==
    /\ has_snapshot \in BOOLEAN
    /\ \E k \in (IF has_snapshot THEN 0..MaxManifests ELSE {0}), n \in 0..MaxEntries :
         \E counts \in [1..k -> 0..MaxEntries], specs \in [1..k -> SpecIds],
            flat \in [1..n -> ManifestEntries] :
              /\ SumTo(counts, k) = n
              /\ storage =
                    [j \in 1..k |->
                        [spec_id |-> specs[j],
                         entries |-> SubSeq(flat, SumTo(counts, j - 1) + 1,
                                                  SumTo(counts, j))]]
    /\ pc = "start"
    /\ manifest_list = << >>
    /\ mi = 0
    /\ ei = 0
    /\ partition_map = EmptyMap
    /\ printed = {}
    /\ stdout = << >>
    /\ stderr = << >>
    /\ fetches = << >>
    /\ outcome = "running"

\* ---------------------------------------------------------------- actions
\* a missing snapshot handled like a failed read
NoSnapshotAsError ==
    /\ pc = "start"
    /\ ~has_snapshot
    /\ stderr' = Append(stderr, "No current snapshot")
    /\ pc' = "done"
    /\ outcome' = "error"
    /\ UNCHANGED << has_snapshot, storage, manifest_list, mi, ei, partition_map,
                    printed, stdout, fetches >>

\* main.rs:88-95: no current snapshot, plain return
NoSnapshot ==
    /\ pc = "start"
    /\ ~has_snapshot
    /\ pc' = "done"
    /\ outcome' = "ok"
    /\ UNCHANGED << has_snapshot, storage, manifest_list, mi, ei, partition_map,
                    printed, stdout, stderr, fetches >>

\* main.rs:96-103: load_manifest_list succeeds
LoadManifestList ==
    /\ pc = "start"
    /\ has_snapshot
    /\ fetches' = Append(fetches, [kind |-> "manifest_list", index |-> 0, ok |-> TRUE])
    /\ manifest_list' = storage
    /\ pc' = "manifests"
    /\ UNCHANGED << has_snapshot, storage, mi, ei, partition_map, printed,
                    stdout, stderr, outcome >>

\* main.rs:96-103 with 21-32: load_manifest_list fails, try_ok! logs and returns
LoadManifestListFail ==
    /\ pc = "start"
    /\ has_snapshot
    /\ fetches' = Append(fetches, [kind |-> "manifest_list", index |-> 0, ok |-> FALSE])
    /\ stderr' = Append(stderr, "Failed to load manifest list")
    /\ pc' = "done"
    /\ outcome' = "error"
    /\ UNCHANGED << has_snapshot, storage, manifest_list, mi, ei, partition_map,
                    printed, stdout >>

\* main.rs:106-127: the loop takes the next manifest, load_manifest succeeds and
\* the bucket of its spec id is looked up or created
LoadManifest ==
    /\ pc = "manifests"
    /\ mi < Len(LoopManifests(manifest_list))
    /\ manifest_list[mi + 1].spec_id \in DOMAIN PartitionSpecs
    /\ mi' = mi + 1
    /\ fetches' = Append(fetches, [kind |-> "manifest", index |-> mi + 1, ok |-> TRUE])
    /\ partition_map' = EntryOrInsert(partition_map, manifest_list[mi + 1].spec_id)
    /\ ei' = 0
    /\ pc' = "entries"
    /\ UNCHANGED << has_snapshot, storage, manifest_list, printed, stdout, stderr,
                    outcome >>

\* an unknown spec id given an empty bucket instead of a panic
LoadManifestUnknownSpecDefault ==
    /\ pc = "manifests"
    /\ mi < Len(LoopManifests(manifest_list))
    /\ manifest_list[mi + 1].spec_id \notin DOMAIN PartitionSpecs
    /\ mi' = mi + 1
    /\ ei' = 0
    /\ fetches' = Append(fetches, [kind |-> "manifest", index |-> mi + 1, ok |-> TRUE])
    /\ partition_map' = partition_map @@ (manifest_list[mi + 1].spec_id :> << >>)
    /\ pc' = "entries"
    /\ UNCHANGED << has_snapshot, storage, manifest_list, printed, stdout, stderr,
                    outcome >>

\* main.rs:117-123: partition_spec_by_id(..).unwrap() panics inside the
\* or_insert_with closure, before anything is inserted
LoadManifestUnknownSpec ==
    /\ pc = "manifests"
    /\ mi < Len(LoopManifests(manifest_list))
    /\ manifest_list[mi + 1].spec_id \notin DOMAIN PartitionSpecs
    /\ mi' = mi + 1
    /\ ei' = 0
    /\ fetches' = Append(fetches, [kind |-> "manifest", index |-> mi + 1, ok |-> TRUE])
    /\ pc' = "done"
    /\ outcome' = "panic"
    /\ UNCHANGED << has_snapshot, storage, manifest_list, partition_map, printed,
                    stdout, stderr >>

\* a failed load_manifest that logs and goes on with the next manifest
LoadManifestFailContinue ==
    /\ pc = "manifests"
    /\ mi < Len(LoopManifests(manifest_list))
    /\ mi' = mi + 1
    /\ ei' = 0
    /\ fetches' = Append(fetches, [kind |-> "manifest", index |-> mi + 1, ok |-> FALSE])
    /\ stderr' = Append(stderr, "Failed to load manifest file")
    /\ UNCHANGED << has_snapshot, storage, pc, manifest_list, partition_map, printed,
                    stdout, outcome >>

\* main.rs:107-110 with 21-32: load_manifest fails, try_ok! logs and returns
LoadManifestFail ==
    /\ pc = "manifests"
    /\ mi < Len(LoopManifests(manifest_list))
    /\ mi' = mi + 1
    /\ ei' = 0
    /\ fetches' = Append(fetches, [kind |-> "manifest", index |-> mi + 1, ok |-> FALSE])
    /\ stderr' = Append(stderr, "Failed to load manifest file")
    /\ pc' = "done"
    /\ outcome' = "error"
    /\ UNCHANGED << has_snapshot, storage, manifest_list, partition_map, printed,
                    stdout >>

\* main.rs:129-134: a Deleted entry is skipped
SkipDeleted ==
    /\ pc = "entries"
    /\ ei < Len(CurManifest.entries)
    /\ IsDeleted(CurManifest.entries[ei + 1])
    /\ ei' = ei + 1
    /\ UNCHANGED << has_snapshot, storage, pc, manifest_list, mi, partition_map,
                    printed, stdout, stderr, fetches, outcome >>

\* main.rs:136-143: every value of a live entry's tuple is inserted
InsertEntry ==
    /\ pc = "entries"
    /\ ei < Len(CurManifest.entries)
    /\ CurManifest.spec_id \in DOMAIN partition_map
    /\ LET entry == CurManifest.entries[ei + 1]
           s == CurManifest.spec_id
       IN  /\ ~IsDeleted(entry)
           /\ ~InsertPanics(partition_map[s], entry.partition)
           /\ partition_map' =
                 [partition_map EXCEPT ![s] = InsertFields(@, entry.partition)]
    /\ ei' = ei + 1
    /\ UNCHANGED << has_snapshot, storage, pc, manifest_list, mi, printed, stdout,
                    stderr, fetches, outcome >>

\* main.rs:136-143: the tuple is longer than the bucket; the values that fit are
\* inserted and get_mut(..).unwrap() panics on the first one that does not
InsertEntryPanic ==
    /\ pc = "entries"
    /\ ei < Len(CurManifest.entries)
    /\ CurManifest.spec_id \in DOMAIN partition_map
    /\ LET entry == CurManifest.entries[ei + 1]
           s == CurManifest.spec_id
       IN  /\ ~IsDeleted(entry)
           /\ InsertPanics(partition_map[s], entry.partition)
           /\ partition_map' =
                 [partition_map EXCEPT ![s] = InsertFields(@, entry.partition)]
    /\ ei' = ei + 1
    /\ pc' = "done"
    /\ outcome' = "panic"
    /\ UNCHANGED << has_snapshot, storage, manifest_list, mi, printed, stdout,
                    stderr, fetches >>

\* main.rs:129/145: the entries of the manifest are exhausted
EndEntries ==
    /\ pc = "entries"
    /\ ei = Len(CurManifest.entries)
    /\ pc' = "manifests"
    /\ UNCHANGED << has_snapshot, storage, manifest_list, mi, ei, partition_map,
                    printed, stdout, stderr, fetches, outcome >>

\* main.rs:106/147: the manifest iterator is exhausted, the report starts
EndManifests ==
    /\ pc = "manifests"
    /\ mi = Len(LoopManifests(manifest_list))
    /\ stdout' = Append(stdout, [kind |-> "title"])
    /\ pc' = "report"
    /\ UNCHANGED << has_snapshot, storage, manifest_list, mi, ei, partition_map,
                    printed, stderr, fetches, outcome >>

\* main.rs:156-163: the rows of one block
Rows(k, v) ==
    [i \in 1..Len(v) |->
        [kind |-> "row",
         id |-> PartitionSpecs[k][i].field_id,
         name |-> PartitionSpecs[k][i].name,
         transform |-> PartitionSpecs[k][i].transform,
         distinct_count |-> Cardinality(v[i])]]

\* main.rs:148-172: one block of the report; HashMap iteration order is arbitrary
PrintBlock ==
    /\ pc = "report"
    /\ \E k \in DOMAIN partition_map \ printed :
         /\ k \in DOMAIN PartitionSpecs
         /\ stdout' = stdout \o << [kind |-> "spec", spec_id |-> k],
                                   [kind |-> "columns"] >>
                             \o Rows(k, partition_map[k])
                             \o << [kind |-> "blank"] >>
         /\ printed' = printed \cup {k}
    /\ UNCHANGED << has_snapshot, storage, pc, manifest_list, mi, ei, partition_map,
                    stderr, fetches, outcome >>

\* main.rs:148/173: every key has been printed, list_partitions returns
EndReport ==
    /\ pc = "report"
    /\ printed = DOMAIN partition_map
    /\ pc' = "done"
    /\ outcome' = "ok"
    /\ UNCHANGED << has_snapshot, storage, manifest_list, mi, ei, partition_map,
                    printed, stdout, stderr, fetches >>

Next ==
    \/ NoSnapshot
    \/ LoadManifestList
    \/ LoadManifestListFail
    \/ LoadManifest
    \/ LoadManifestUnknownSpec
    \/ LoadManifestFail
    \/ SkipDeleted
    \/ InsertEntry
    \/ InsertEntryPanic
    \/ EndEntries
    \/ EndManifests
    \/ PrintBlock
    \/ EndReport

Spec == Init /\ [][Next]_vars

\* ------------------------------------------------- what the pass has read
\* manifest j was loaded and decoded
Loaded(j) ==
    \E n \in DOMAIN fetches :
        fetches[n].kind = "manifest" /\ fetches[n].index = j /\ fetches[n].ok

\* the entries of manifest j the inner loop has taken so far
Taken(j) ==
    IF ~(j \in 1..mi /\ Loaded(j)) THEN 0
    ELSE IF j < mi THEN Len(manifest_list[j].entries)
    ELSE ei

\* the values live entries taken so far carry at index i, in manifests of spec s
LiveValues(s, i) ==
    UNION {{manifest_list[j].entries[n].partition[i] :
                n \in {x \in 1..Taken(j) :
                          /\ manifest_list[j].entries[x].status # "Deleted"
                          /\ i <= Len(manifest_list[j].entries[x].partition)}} :
              j \in {x \in 1..mi : manifest_list[x].spec_id = s}}

\* positions of the lines of one kind in the report
Lines(kind) == {n \in DOMAIN stdout : stdout[n].kind = kind}

\* the 'partition spec id:' line that opens the block line n belongs to
BlockStart(n) ==
    CHOOSE m \in Lines("spec") :
        m < n /\ \A m2 \in Lines("spec") : m2 < n => m2 <= m

\* a row's spec id and its field index: rows follow the header and the column line
RowSpec(n) == stdout[BlockStart(n)].spec_id
RowIndex(n) == n - BlockStart(n) - 1

Finished == pc = "done" /\ outcome = "ok"

\* ----------------------------------------------------------------- claims
\* C2: a value is in the set of (spec id, field index) only if a live (Added or
\* Existing) entry already taken from a manifest of that spec carries it at
\* that index, and every distinct_count printed is the number of such values:
\* Deleted entries contribute nothing and a repeated value counts once.
C2_DeletedContributeNothing ==
    /\ \A s \in DOMAIN partition_map : \A i \in 1..Len(partition_map[s]) :
          \A v \in partition_map[s][i] :
              \E j \in 1..mi : \E n \in 1..Taken(j) :
                  /\ manifest_list[j].spec_id = s
                  /\ manifest_list[j].entries[n].status \in {"Added", "Existing"}
                  /\ i <= Len(manifest_list[j].entries[n].partition)
                  /\ manifest_list[j].entries[n].partition[i] = v
    /\ \A n \in Lines("row") :
          stdout[n].distinct_count = Cardinality(LiveValues(RowSpec(n), RowIndex(n)))

\* a finished run whose manifest held a Deleted entry with a value no live
\* entry has, next to a live entry: the reported count is 1
C2_Witness ==
    /\ Finished
    /\ \E n \in 1..Taken(1) :
          /\ manifest_list[1].entries[n].status = "Deleted"
          /\ manifest_list[1].entries[n].partition[1]
                \notin partition_map[manifest_list[1].spec_id][1]
    /\ \E n \in Lines("row") : RowIndex(n) = 1 /\ stdout[n].distinct_count = 1

\* C3: every key of partition_map is a spec id of the metadata and its
\* sequence of sets is as long as that spec's field list, whatever the length
\* of the tuples inserted.
C3_AggregateShape ==
    \A s \in DOMAIN partition_map :
        /\ s \in DOMAIN PartitionSpecs
        /\ Len(partition_map[s]) = Len(PartitionSpecs[s])

\* a live entry whose tuple is longer than the bucket has been taken
C3_Witness ==
    /\ mi >= 1
    /\ Loaded(mi)
    /\ manifest_list[mi].spec_id \in DOMAIN partition_map
    /\ \E n \in 1..Taken(mi) :
          /\ manifest_list[mi].entries[n].status # "Deleted"
          /\ Len(manifest_list[mi].entries[n].partition)
                > Len(PartitionSpecs[manifest_list[mi].spec_id])

\* C6: with no current snapshot the run returns normally: nothing is read from
\* the object store, partition_map stays empty, nothing is logged as an error
\* and the report has no 'partition spec id:' block.
C6_NoSnapshot ==
    ~has_snapshot =>
        /\ pc \in {"start", "done"}
        /\ outcome = (IF pc = "done" THEN "ok" ELSE "running")
        /\ fetches = << >>
        /\ partition_map = EmptyMap
        /\ stderr = << >>
        /\ Lines("spec") \cup Lines("row") = {}

\* the run over a table with no current snapshot has ended
C6_Witness == ~has_snapshot /\ pc = "done" /\ outcome = "ok"

\* C7: a failed read (of the manifest list or of a manifest) is the last read
\* of the run, is logged, ends the run as an error and leaves the report
\* without any block; a block is written only when no read failed and every
\* manifest the loop visits has been loaded and all its entries taken.
C7_AllOrNothing ==
    /\ \A n \in DOMAIN fetches :
          ~fetches[n].ok =>
              /\ n = Len(fetches)
              /\ outcome = "error"
              /\ pc = "done"
              /\ Len(stderr) = 1
              /\ Lines("spec") \cup Lines("row") = {}
    /\ outcome = "error" => \E n \in DOMAIN fetches : ~fetches[n].ok
    /\ Lines("spec") \cup Lines("row") # {} =>
          /\ outcome \in {"running", "ok"}
          /\ \A n \in DOMAIN fetches : fetches[n].ok
          /\ mi = Len(LoopManifests(manifest_list))
          /\ \A j \in 1..mi : Loaded(j) /\ Taken(j) = Len(manifest_list[j].entries)

\* the load of a manifest file failed while the list held a manifest with entries
C7_Witness ==
    /\ outcome = "error"
    /\ \E n \in DOMAIN fetches : fetches[n].kind = "manifest" /\ ~fetches[n].ok
    /\ \E j \in DOMAIN manifest_list : manifest_list[j].entries # << >>

\* C9: a loaded manifest whose spec id is not in the metadata ends the run in
\* a panic at that manifest: the id is no key of partition_map and nothing
\* has been written to standard output.
C9_UnknownSpecFatal ==
    /\ \A j \in 1..mi :
          (Loaded(j) /\ manifest_list[j].spec_id \notin DOMAIN PartitionSpecs) =>
              /\ outcome = "panic"
              /\ pc = "done"
              /\ j = mi
              /\ manifest_list[j].spec_id \notin DOMAIN partition_map
              /\ stdout = << >>
    /\ UnknownSpecId \notin DOMAIN partition_map

\* the loop has loaded a manifest that declares the unknown spec id
C9_Witness ==
    /\ mi >= 1
    /\ Loaded(mi)
    /\ manifest_list[mi].spec_id = UnknownSpecId
    /\ manifest_list[mi].entries # << >>

\* the spec ids of the manifests loaded so far that the metadata knows
LoadedSpecIds ==
    {manifest_list[j].spec_id :
        j \in {x \in 1..mi : Loaded(x) /\ manifest_list[x].spec_id \in DOMAIN PartitionSpecs}}

\* the rows of the block of spec id s
RowsOf(s) == {n \in Lines("row") : RowSpec(n) = s}

\* C10: the keys of partition_map are the spec ids of the manifests loaded so
\* far, whether or not they hold live entries; a key without live entries has
\* one empty set per field, and a finished run has printed one block for
\* every key, with one row per field, all of them 0 for such a key.
C10_BucketPerManifest ==
    /\ DOMAIN partition_map = LoadedSpecIds
    /\ \A s \in DOMAIN partition_map :
          (\A i \in 1..Len(partition_map[s]) : partition_map[s][i] = {})
             \/ (\E i \in 1..Len(PartitionSpecs[s]) : LiveValues(s, i) # {})
    /\ (Finished /\ has_snapshot) =>
          \A s \in DOMAIN partition_map :
              /\ \E n \in Lines("spec") : stdout[n].spec_id = s
              /\ Cardinality(RowsOf(s)) = Len(PartitionSpecs[s])
              /\ (\A i \in 1..Len(PartitionSpecs[s]) : LiveValues(s, i) = {}) =>
                    \A n \in RowsOf(s) : stdout[n].distinct_count = 0

\* a finished run whose only loaded manifest holds nothing but Deleted
\* entries, reported with distinct_count = 0
C10_Witness ==
    /\ Finished
    /\ mi = 1
    /\ manifest_list[1].entries # << >>
    /\ \A n \in DOMAIN manifest_list[1].entries :
          manifest_list[1].entries[n].status = "Deleted"
    /\ manifest_list[1].spec_id \in DOMAIN partition_map
    /\ \E n \in Lines("row") : stdout[n].distinct_count = 0

\* the live entries of a stored manifest
LiveEntries(m) == {n \in DOMAIN m.entries : m.entries[n].status # "Deleted"}

\* C1: when the run finishes, every value of every live entry of every
\* manifest of the snapshot's manifest list is in the set of its manifest's
\* spec id at its index.
C1_EveryManifestFolded ==
    (Finished /\ has_snapshot) =>
        \A j \in DOMAIN storage : \A n \in LiveEntries(storage[j]) :
            \A i \in DOMAIN storage[j].entries[n].partition :
                /\ storage[j].spec_id \in DOMAIN partition_map
                /\ i <= Len(partition_map[storage[j].spec_id])
                /\ storage[j].entries[n].partition[i]
                      \in partition_map[storage[j].spec_id][i]

\* the manifest list with its manifests rearranged by p
PermuteManifests(list, p) == [j \in DOMAIN list |-> list[p[j]]]

\* the manifest list with the entries of manifest j rearranged by q
PermuteEntries(list, j, q) ==
    [list EXCEPT ![j].entries = [n \in DOMAIN list[j].entries |-> list[j].entries[q[n]]]]

\* C4: the aggregate a finished run has built is the one the pass builds from
\* the same manifest list with its manifests in any other order, and with the
\* entries of any manifest in any other order.
C4_OrderIndependent ==
    (Finished /\ has_snapshot) =>
        /\ \A p \in Permutations(DOMAIN storage) :
              Aggregate(PermuteManifests(storage, p))
                 = [map |-> partition_map, outcome |-> "ok"]
        /\ \A j \in DOMAIN storage : \A q \in Permutations(DOMAIN storage[j].entries) :
              Aggregate(PermuteEntries(storage, j, q))
                 = [map |-> partition_map, outcome |-> "ok"]

\* C5: when the manifest list holds manifests of spec 1 (one field) and of
\* spec 2 (two fields) and no others, the finished aggregate has exactly the
\* keys 1 and 2, with one set and two sets.
C5_TwoSpecsTwoBuckets ==
    (Finished /\ has_snapshot /\ {storage[j].spec_id : j \in DOMAIN storage} = {1, 2}) =>
        /\ DOMAIN partition_map = {1, 2}
        /\ Len(partition_map[1]) = 1
        /\ Len(partition_map[2]) = 2

\* C8: a run that has taken a live entry whose tuple is longer or shorter than
\* the field list of its manifest's spec does not return normally and writes
\* no block of the report.
C8_MismatchFailsFast ==
    \A j \in 1..mi : \A n \in 1..Taken(j) :
        (/\ manifest_list[j].spec_id \in DOMAIN PartitionSpecs
         /\ manifest_list[j].entries[n].status # "Deleted"
         /\ Len(manifest_list[j].entries[n].partition)
               # Len(PartitionSpecs[manifest_list[j].spec_id])) =>
            /\ outcome # "ok"
            /\ Lines("spec") \cup Lines("row") = {}
====
